---- MODULE Spec2Model ----
(***************************************************************************)
(* N-Queens as a CSP: backtracking with forward checking and the VRM, Grau *)
(* and VMR heuristics (src/main.py), and the binary min-heap used by the   *)
(* best-first variant (src/models/min_heap.py).                            *)
(*                                                                         *)
(* The recursion of _backtrack is unfolded on an explicit stack of frames: *)
(* one frame per active invocation that has reached its column loop.       *)
(***************************************************************************)
EXTENDS Integers, Sequences, FiniteSets, TLC

VARIABLES
    n, use_vrm, use_grau, use_vmr,      \* NQueensCSP fields set by __init__
    nodes_explored, backtracks,         \* statistics
    solution,                           \* self.solution
    G, node_labels, exploration_order,  \* the search graph kept for plotting
    events,                             \* the add_edge calls, in call order
    pc,                                 \* where solve() stands
    stack,                              \* frames of _backtrack in their loop
    args,                               \* arguments of the invocation entering
    ret,                                \* value the last invocation returned
    report,                             \* what solve() printed about result
    returned,                           \* what solve() returned
    zero_cands,                         \* history: times line 221 was reached
    cfg_i, results,                     \* compare_heuristics: loop index, rows
    heap, heap_op, heap_ret, live,      \* ManualMinHeap and its last operation
    h_assignment, h_order, h_row, h_pc  \* one call of combined_heuristic

solverVars == <<n, use_vrm, use_grau, use_vmr, nodes_explored, backtracks,
                solution, G, node_labels, exploration_order, events, pc, stack,
                args, ret, report, returned, zero_cands>>
compareVars == <<cfg_i, results>>
heapVars == <<heap, heap_op, heap_ret, live>>
heurVars == <<h_assignment, h_order, h_row, h_pc>>
vars == <<solverVars, compareVars, heapVars, heurVars>>

(***************************************************************************)
(* Bounds of the model.                                                    *)
(***************************************************************************)
\* largest board size a single solve() run is started with
MaxN == 8
\* largest board size combined_heuristic is applied to on arbitrary inputs
MaxHeurN == 4
\* most items the heap holds
MaxHeap == 5
\* each component of a heap item ranges over 0..MaxKey
MaxKey == 1

\* compare_heuristics(n=8): the board size of the comparison
CompareN == 8

(***************************************************************************)
(* Python values.                                                          *)
(***************************************************************************)
None == [some |-> FALSE, val |-> <<>>]
Some(v) == [some |-> TRUE, val |-> v]

Abs(x) == IF x < 0 THEN 0 - x ELSE x

\* range(k) as the sequence 0, 1, ..., k-1 (empty for k <= 0)
Range(k) == [i \in 1..k |-> i - 1]

Elems(s) == {s[i] : i \in DOMAIN s}

Min(S) == CHOOSE x \in S : \A y \in S : x <= y

\* Iteration order of a set of rows.  In CPython hash(i) = i indexes the
\* table directly and a table has at least 8 slots, so a set of rows of a
\* board of up to 8 rows iterates in ascending order.  SpecHeur below does
\* not rely on it: there the order is arbitrary.
RECURSIVE SetIter(_)
SetIter(S) == IF S = {} THEN <<>> ELSE <<Min(S)>> \o SetIter(S \ {Min(S)})

\* dict(assignment); d[linha] = col
DictSet(d, k, v) == [r \in DOMAIN d \cup {k} |-> IF r = k THEN v ELSE d[r]]

\* tuple((r, d[r]) for r in sorted(d.keys()))
StateOf(d) == LET ks == SetIter(DOMAIN d) IN [i \in DOMAIN ks |-> <<ks[i], d[ks[i]]>>]

(***************************************************************************)
(* Constraint model.                                                       *)
(***************************************************************************)
is_safe_no_diagonal(assignment, linha, col) ==
    \A r \in DOMAIN assignment : assignment[r] # col

is_safe_no_column(assignment, linha, col) ==
    \A r \in DOMAIN assignment : Abs(r - linha) # Abs(assignment[r] - col)

is_safe_assignment(assignment, linha, col) ==
    \A r \in DOMAIN assignment :
        /\ assignment[r] # col
        /\ Abs(r - linha) # Abs(assignment[r] - col)

get_available_colunas(assignment, linha) ==
    SelectSeq(Range(n), LAMBDA col : is_safe_assignment(assignment, linha, col))

count_conflicts(assignment, linha, col) ==
    LET temp_assignment == DictSet(assignment, linha, col)
    IN  Cardinality({p \in Elems(Range(n)) \X Elems(Range(n)) :
                        /\ p[1] \notin DOMAIN temp_assignment
                        /\ ~is_safe_assignment(temp_assignment, p[1], p[2])})

(***************************************************************************)
(* Row selection.  `order` is the iteration order of unassigned_linhas.    *)
(***************************************************************************)
\* The loop of lines 77-81; acc = [inf, min_values, best]; inf stands for
\* min_values = float('inf'), best is None until the first row is taken.
RECURSIVE vrm_loop(_, _, _, _)
vrm_loop(assignment, order, i, acc) ==
    IF i > Len(order) THEN acc.best
    ELSE LET available == Len(get_available_colunas(assignment, order[i]))
         IN  IF acc.inf \/ available < acc.min_values
             THEN vrm_loop(assignment, order, i + 1,
                           [inf |-> FALSE, min_values |-> available, best |-> Some(order[i])])
             ELSE vrm_loop(assignment, order, i + 1, acc)

vrm_last_minimum(assignment, order) ==
    LET cnt(r) == Len(get_available_colunas(assignment, r))
        best == {i \in DOMAIN order : \A j \in DOMAIN order : cnt(order[i]) <= cnt(order[j])}
    IN  IF order = <<>> THEN None
        ELSE Some(order[CHOOSE i \in best : \A j \in best : j <= i])

vrm_heuristic(assignment, order) ==
    vrm_loop(assignment, order, 1, [inf |-> TRUE, min_values |-> 0, best |-> None])

grau_heuristic(board, order) == Some(Min(Elems(order)))

\* the comparison of line 115 turned round: the rows with the most columns
RECURSIVE candidates_most(_, _, _, _)
candidates_most(assignment, order, i, acc) ==
    IF i > Len(order) THEN acc.candidates
    ELSE LET available == Len(get_available_colunas(assignment, order[i]))
         IN  IF acc.inf \/ available > acc.min_values
             THEN candidates_most(assignment, order, i + 1,
                      [inf |-> FALSE, min_values |-> available, candidates |-> <<order[i]>>])
             ELSE IF available = acc.min_values
             THEN candidates_most(assignment, order, i + 1,
                      [acc EXCEPT !.candidates = Append(@, order[i])])
             ELSE candidates_most(assignment, order, i + 1, acc)

\* The loop of lines 113-119; acc = [inf, min_values, candidates]
RECURSIVE candidates_loop(_, _, _, _)
candidates_loop(assignment, order, i, acc) ==
    IF i > Len(order) THEN acc.candidates
    ELSE LET available == Len(get_available_colunas(assignment, order[i]))
         IN  IF acc.inf \/ available < acc.min_values
             THEN candidates_loop(assignment, order, i + 1,
                      [inf |-> FALSE, min_values |-> available, candidates |-> <<order[i]>>])
             ELSE IF available = acc.min_values
             THEN candidates_loop(assignment, order, i + 1,
                      [acc EXCEPT !.candidates = Append(@, order[i])])
             ELSE candidates_loop(assignment, order, i + 1, acc)

\* min() of an empty sequence raises ValueError
combined_raises(order) ==
    /\ ~(use_vrm /\ ~use_grau)
    /\ order = <<>>

combined_heuristic(assignment, order) ==
    IF ~use_vrm /\ ~use_grau THEN Some(Min(Elems(order)))
    ELSE IF use_vrm /\ ~use_grau THEN vrm_heuristic(assignment, order)
    ELSE IF ~use_vrm /\ use_grau THEN grau_heuristic(assignment, order)
    ELSE Some(Min(Elems(candidates_loop(assignment, order, 1,
                      [inf |-> TRUE, min_values |-> 0, candidates |-> <<>>]))))

(***************************************************************************)
(* Column ordering.                                                        *)
(***************************************************************************)
\* list.sort(key=...) is stable: insert each pair after the pairs whose key
\* is not greater.
RECURSIVE InsertByKey(_, _)
InsertByKey(sorted, pair) ==
    IF sorted = <<>> THEN <<pair>>
    ELSE IF pair[2] < sorted[1][2] THEN <<pair>> \o sorted
    ELSE <<sorted[1]>> \o InsertByKey(Tail(sorted), pair)

RECURSIVE SortByKey(_, _, _)
SortByKey(pairs, i, sorted) ==
    IF i > Len(pairs) THEN sorted
    ELSE SortByKey(pairs, i + 1, InsertByKey(sorted, pairs[i]))

vmr_order_values(assignment, linha, available_cols) ==
    IF ~use_vmr THEN available_cols
    ELSE LET col_conflicts == [i \in DOMAIN available_cols |->
                 <<available_cols[i], count_conflicts(assignment, linha, available_cols[i])>>]
             ordered == SortByKey(col_conflicts, 1, <<>>)
         IN  [i \in DOMAIN ordered |-> ordered[i][1]]

(***************************************************************************)
(* Validator.                                                              *)
(***************************************************************************)
_validate_solution(assignment) ==
    \A r1 \in 0..(n - 1) : \A r2 \in (r1 + 1)..(n - 1) :
        /\ assignment[r1] # assignment[r2]
        /\ Abs(r1 - r2) # Abs(assignment[r1] - assignment[r2])

\* `if result:` - None and the empty dict are both falsy
Truthy(r) == r.some /\ DOMAIN r.val # {}

(***************************************************************************)
(* solve() and _backtrack.                                                 *)
(***************************************************************************)
\* NQueensCSP.__init__
Constructed(nv, vrm, grau, vmr) ==
    /\ n = nv /\ use_vrm = vrm /\ use_grau = grau /\ use_vmr = vmr
    /\ nodes_explored = 0 /\ backtracks = 0
    /\ solution = None
    /\ G = [nodes |-> {}, edges |-> {}]
    /\ node_labels = <<>> /\ exploration_order = <<>>
    /\ events = <<>>
    /\ pc = "constructed"
    /\ stack = <<>> /\ args = None /\ ret = None
    /\ report = "" /\ returned = None
    /\ zero_cands = 0

IdleCompare == cfg_i = 0 /\ results = <<>>
IdleHeap == heap = <<>> /\ heap_op = "new" /\ heap_ret = None /\ live = <<>>
IdleHeur == h_assignment = <<>> /\ h_order = <<>> /\ h_row = None /\ h_pc = "off"

Init ==
    /\ \E nv \in (0 - 1)..MaxN : \E vrm \in BOOLEAN, grau \in BOOLEAN, vmr \in BOOLEAN :
           Constructed(nv, vrm, grau, vmr)
    /\ IdleCompare /\ IdleHeap /\ IdleHeur

Top == stack[Len(stack)]

\* lines 151-159: the root node, then _backtrack({}, set(range(n)), ())
Solve ==
    /\ pc = "constructed"
    /\ G' = [G EXCEPT !.nodes = @ \cup {<<>>}]
    /\ node_labels' = (<<>> :> "Inicio") @@ node_labels
    /\ exploration_order' = (<<>> :> 0) @@ exploration_order
    /\ args' = Some([assignment |-> <<>>, unassigned_linhas |-> Elems(Range(n)),
                     parent_state |-> <<>>])
    /\ pc' = "call"
    /\ UNCHANGED <<n, use_vrm, use_grau, use_vmr, nodes_explored, backtracks, solution,
                   events, stack, ret, report, returned, zero_cands>>
    /\ UNCHANGED <<compareVars, heapVars, heurVars>>

\* lines 207-225: entry of _backtrack up to the column loop
Enter ==
    /\ pc = "call"
    /\ nodes_explored' = nodes_explored + 1
    /\ args' = None
    /\ LET a == args.val.assignment
           order == SetIter(args.val.unassigned_linhas)
       IN  IF Cardinality(DOMAIN a) = n
           THEN /\ ret' = Some(a)
                /\ pc' = "return"
                /\ UNCHANGED <<backtracks, zero_cands, stack>>
           ELSE IF combined_raises(order)
           THEN /\ pc' = "raised"
                /\ UNCHANGED <<backtracks, zero_cands, stack, ret>>
           ELSE LET linha == combined_heuristic(a, order)
                    available_cols == get_available_colunas(a, linha.val)
                IN  IF available_cols = <<>>
                    THEN /\ backtracks' = backtracks + 1
                         /\ zero_cands' = zero_cands + 1
                         /\ ret' = None
                         /\ pc' = "return"
                         /\ UNCHANGED stack
                    ELSE /\ stack' = Append(stack,
                                [assignment |-> a,
                                 unassigned_linhas |-> args.val.unassigned_linhas,
                                 parent_state |-> args.val.parent_state,
                                 linha |-> linha.val,
                                 ordered_cols |-> vmr_order_values(a, linha.val, available_cols),
                                 i |-> 1])
                         /\ pc' = "loop"
                         /\ UNCHANGED <<backtracks, zero_cands, ret>>
    /\ UNCHANGED <<n, use_vrm, use_grau, use_vmr, solution, G, node_labels,
                   exploration_order, events, report, returned>>
    /\ UNCHANGED <<compareVars, heapVars, heurVars>>

\* lines 244-251
forward_check_skipped(new_assignment, new_unassigned) == TRUE

forward_check_ok(new_assignment, new_unassigned) ==
    \A future_linha \in new_unassigned :
        get_available_colunas(new_assignment, future_linha) # <<>>

\* lines 238-240: what one column trial records
event_keyed_by_column(parent_state, new_state, linha, col) ==
    [parent |-> parent_state, child |-> <<<<0, col>>>>, linha |-> linha, col |-> col,
     node_index |-> nodes_explored]

PlacementEvent(parent_state, new_state, linha, col) ==
    [parent |-> parent_state, child |-> new_state, linha |-> linha, col |-> col,
     node_index |-> nodes_explored]

\* line 260 after a trial whose recursion returned r (None when it was not made)
backtracks_always(r) == backtracks + 1

backtracks_after_trial(r) == IF r.some THEN backtracks ELSE backtracks + 1

\* lines 228-255 and, when forward checking fails, line 260: one column trial
Trial ==
    /\ pc = "loop"
    /\ Top.i <= Len(Top.ordered_cols)
    /\ LET col == Top.ordered_cols[Top.i]
           new_assignment == DictSet(Top.assignment, Top.linha, col)
           new_state == StateOf(new_assignment)
           ev == PlacementEvent(Top.parent_state, new_state, Top.linha, col)
           new_unassigned == Top.unassigned_linhas \ {Top.linha}
       IN  /\ G' = [nodes |-> G.nodes \cup {ev.parent, ev.child},
                    edges |-> G.edges \cup {<<ev.parent, ev.child>>}]
           /\ node_labels' = (ev.child :> <<ev.linha, ev.col>>) @@ node_labels
           /\ exploration_order' = (ev.child :> ev.node_index) @@ exploration_order
           /\ events' = Append(events, ev)
           /\ IF forward_check_ok(new_assignment, new_unassigned)
              THEN /\ args' = Some([assignment |-> new_assignment,
                                    unassigned_linhas |-> new_unassigned,
                                    parent_state |-> new_state])
                   /\ pc' = "call"
                   /\ UNCHANGED <<backtracks, stack>>
              ELSE /\ backtracks' = backtracks_after_trial(None)
                   /\ stack' = [stack EXCEPT ![Len(stack)].i = @ + 1]
                   /\ UNCHANGED <<args, pc>>
    /\ UNCHANGED <<n, use_vrm, use_grau, use_vmr, nodes_explored, solution, ret,
                   report, returned, zero_cands>>
    /\ UNCHANGED <<compareVars, heapVars, heurVars>>

\* line 262: every column tried, return None
Exhausted ==
    /\ pc = "loop"
    /\ Top.i > Len(Top.ordered_cols)
    /\ stack' = SubSeq(stack, 1, Len(stack) - 1)
    /\ ret' = None
    /\ pc' = "return"
    /\ UNCHANGED <<n, use_vrm, use_grau, use_vmr, nodes_explored, backtracks, solution,
                   G, node_labels, exploration_order, events, args, report, returned,
                   zero_cands>>
    /\ UNCHANGED <<compareVars, heapVars, heurVars>>

\* lines 255-260: the recursive call came back into the loop of its caller
Resume ==
    /\ pc = "return"
    /\ stack # <<>>
    /\ backtracks' = backtracks_after_trial(ret)
    /\ IF ret.some
       THEN /\ stack' = SubSeq(stack, 1, Len(stack) - 1)
            /\ UNCHANGED <<ret, pc>>
       ELSE /\ stack' = [stack EXCEPT ![Len(stack)].i = @ + 1]
            /\ pc' = "loop"
            /\ UNCHANGED ret
    /\ UNCHANGED <<n, use_vrm, use_grau, use_vmr, nodes_explored, solution,
                   G, node_labels, exploration_order, events, args, report, returned,
                   zero_cands>>
    /\ UNCHANGED <<compareVars, heapVars, heurVars>>

\* lines 171-174: what solve() does with the validator's verdict
report_of_validation(result) ==
    IF _validate_solution(result) THEN "validated" ELSE "conflict"

\* lines 161-184: the root invocation returned to solve()
Finish ==
    /\ pc = "return"
    /\ stack = <<>>
    /\ IF Truthy(ret)
       THEN /\ solution' = ret
            /\ report' = report_of_validation(ret.val)
       ELSE /\ report' = "none"
            /\ UNCHANGED solution
    /\ returned' = ret
    /\ pc' = "done"
    /\ UNCHANGED <<n, use_vrm, use_grau, use_vmr, nodes_explored, backtracks,
                   G, node_labels, exploration_order, events, stack, args, ret,
                   zero_cands>>
    /\ UNCHANGED <<compareVars, heapVars, heurVars>>

SolverNext == Solve \/ Enter \/ Trial \/ Exhausted \/ Resume \/ Finish

Next == SolverNext

Spec == Init /\ [][Next]_vars

(***************************************************************************)
(* compare_heuristics(n=8): one solver per configuration, run in turn.     *)
(***************************************************************************)
\* lines 372-380: (use_vrm, use_grau, use_vmr) of each configuration
configs == << <<FALSE, FALSE, FALSE>>, <<TRUE, FALSE, FALSE>>, <<FALSE, TRUE, FALSE>>,
              <<FALSE, FALSE, TRUE>>, <<TRUE, TRUE, FALSE>>, <<TRUE, FALSE, TRUE>>,
              <<TRUE, TRUE, TRUE>> >>

InitCompare ==
    /\ Constructed(CompareN, configs[1][1], configs[1][2], configs[1][3])
    /\ cfg_i = 1 /\ results = <<>>
    /\ IdleHeap /\ IdleHeur

\* lines 395-401, then line 389 of the next iteration
Collect ==
    /\ pc = "done"
    /\ cfg_i \in DOMAIN configs
    /\ results' = Append(results, [nodes |-> nodes_explored, backtracks |-> backtracks,
                                   found |-> returned.some])
    /\ cfg_i' = cfg_i + 1
    /\ IF cfg_i + 1 \in DOMAIN configs
       THEN /\ n' = n
            /\ use_vrm' = configs[cfg_i + 1][1]
            /\ use_grau' = configs[cfg_i + 1][2]
            /\ use_vmr' = configs[cfg_i + 1][3]
            /\ nodes_explored' = 0 /\ backtracks' = 0
            /\ solution' = None
            /\ G' = [nodes |-> {}, edges |-> {}]
            /\ node_labels' = <<>> /\ exploration_order' = <<>>
            /\ events' = <<>>
            /\ pc' = "constructed"
            /\ stack' = <<>> /\ args' = None /\ ret' = None
            /\ report' = "" /\ returned' = None
            /\ zero_cands' = 0
       ELSE /\ pc' = "compared"
            /\ UNCHANGED <<n, use_vrm, use_grau, use_vmr, nodes_explored, backtracks,
                           solution, G, node_labels, exploration_order, events, stack,
                           args, ret, report, returned, zero_cands>>
    /\ UNCHANGED <<heapVars, heurVars>>

NextCompare == SolverNext \/ Collect

SpecCompare == InitCompare /\ [][NextCompare]_vars

(***************************************************************************)
(* combined_heuristic applied to an arbitrary partial assignment, with the *)
(* unassigned rows iterated in an arbitrary order.                         *)
(***************************************************************************)
PartialAssignments(k) ==
    UNION {[D -> 0..(k - 1)] : D \in SUBSET (0..(k - 1))}

\* the sequences that list every element of U once
Orders(U) ==
    {o \in [1..Cardinality(U) -> U] : \A i, j \in 1..Cardinality(U) : o[i] = o[j] => i = j}

InitHeur ==
    /\ \E nv \in 1..MaxHeurN : \E vrm \in BOOLEAN, grau \in BOOLEAN :
           Constructed(nv, vrm, grau, FALSE)
    /\ h_assignment \in PartialAssignments(n)
    /\ \E U \in (SUBSET ((0..(n - 1)) \ DOMAIN h_assignment)) \ {{}} : h_order \in Orders(U)
    /\ h_row = None
    /\ h_pc = "ready"
    /\ IdleCompare /\ IdleHeap

ApplyHeuristic ==
    /\ h_pc = "ready"
    /\ h_row' = combined_heuristic(h_assignment, h_order)
    /\ h_pc' = "chosen"
    /\ UNCHANGED <<h_assignment, h_order, solverVars, compareVars, heapVars>>

NextHeur == ApplyHeuristic

SpecHeur == InitHeur /\ [][NextHeur]_vars

(***************************************************************************)
(* ManualMinHeap.  Items are tuples (f, g, board), compared as Python      *)
(* compares tuples: element by element.  The heap list is 0-based in the   *)
(* code and 1-based here: index k of the code is heap[k + 1].              *)
(***************************************************************************)
Items == (0..MaxKey) \X (0..1) \X (0..1)

RECURSIVE TupleLess(_, _)
TupleLess(a, b) ==
    IF a = <<>> THEN b # <<>>
    ELSE IF b = <<>> THEN FALSE
    ELSE IF a[1] # b[1] THEN a[1] < b[1]
    ELSE TupleLess(Tail(a), Tail(b))

Swap(h, i, j) == [h EXCEPT ![i + 1] = h[j + 1], ![j + 1] = h[i + 1]]

RECURSIVE _bubble_up(_, _)
_bubble_up(h, index) ==
    LET parent_index == (index - 1) \div 2
    IN  IF index > 0 /\ TupleLess(h[index + 1], h[parent_index + 1])
        THEN _bubble_up(Swap(h, index, parent_index), parent_index)
        ELSE h

RECURSIVE _bubble_down(_, _)
bubble_down_left_only(h, index) ==
    LET left_child == 2 * index + 1
        size == Len(h)
    IN  IF left_child < size /\ TupleLess(h[left_child + 1], h[index + 1])
        THEN _bubble_down(Swap(h, index, left_child), left_child)
        ELSE h

_bubble_down(h, index) ==
    LET left_child == 2 * index + 1
        right_child == 2 * index + 2
        size == Len(h)
        smallest1 == IF left_child < size /\ TupleLess(h[left_child + 1], h[index + 1])
                     THEN left_child ELSE index
        smallest == IF right_child < size /\ TupleLess(h[right_child + 1], h[smallest1 + 1])
                    THEN right_child ELSE smallest1
    IN  IF smallest # index
        THEN _bubble_down(Swap(h, index, smallest), smallest)
        ELSE h

\* The items of a list with their multiplicities
Count(h, x) == Cardinality({i \in DOMAIN h : h[i] = x})
BagOf(h) == [x \in Elems(h) |-> Count(h, x)]
BagAdd(b, x) == [y \in DOMAIN b \cup {x} |->
                    IF y \in DOMAIN b THEN b[y] + (IF y = x THEN 1 ELSE 0) ELSE 1]
BagRemove(b, x) == [y \in {z \in DOMAIN b : z # x \/ b[z] > 1} |->
                       IF y = x THEN b[y] - 1 ELSE b[y]]

InitHeap ==
    /\ Constructed(1, FALSE, FALSE, FALSE)
    /\ IdleCompare /\ IdleHeur
    /\ IdleHeap

\* lines 7-10
push ==
    /\ Len(heap) < MaxHeap
    /\ \E item \in Items :
        /\ heap' = _bubble_up(Append(heap, item), Len(heap))
        /\ live' = BagAdd(live, item)
    /\ heap_op' = "push"
    /\ heap_ret' = None
    /\ UNCHANGED <<solverVars, compareVars, heurVars>>

\* lines 12-22
pop ==
    /\ heap_op' = "pop"
    /\ IF heap = <<>>
       THEN /\ heap_ret' = None
            /\ UNCHANGED <<heap, live>>
       ELSE /\ IF Len(heap) = 1
               THEN /\ heap_ret' = Some(heap[Len(heap)])
                    /\ heap' = SubSeq(heap, 1, Len(heap) - 1)
               ELSE /\ heap_ret' = Some(heap[1])
                    /\ heap' = _bubble_down(
                           [SubSeq(heap, 1, Len(heap) - 1) EXCEPT ![1] = heap[Len(heap)]], 0)
            /\ live' = BagRemove(live, heap_ret'.val)
    /\ UNCHANGED <<solverVars, compareVars, heurVars>>

NextHeap == push \/ pop

SpecHeap == InitHeap /\ [][NextHeap]_vars

(***************************************************************************)
(* Properties.                                                             *)
(***************************************************************************)
\* no two queens of `a` share a column or a diagonal
NonAttacking(a) ==
    \A r1 \in DOMAIN a, r2 \in DOMAIN a :
        r1 # r2 => a[r1] # a[r2] /\ Abs(r1 - r2) # Abs(a[r1] - a[r2])

\* C1: for every board size n >= 4 and every flag combination solve() ends
\* (it does not raise) and what it returns has exactly one entry per row
\* 0..n-1, no two of them on a common column or diagonal, and the validator
\* accepted it.
C1_SolutionValid ==
    n >= 4 =>
        /\ pc # "raised"
        /\ pc = "done" =>
            /\ returned.some
            /\ DOMAIN returned.val = 0..(n - 1)
            /\ \A r \in DOMAIN returned.val : returned.val[r] \in 0..(n - 1)
            /\ NonAttacking(returned.val)
            /\ report = "validated"
            /\ solution = returned

C1_Witness ==
    /\ pc = "done" /\ n >= 4 /\ use_vrm /\ ~use_grau /\ use_vmr
    /\ returned.some /\ backtracks > 0

\* whether solve() finds a solution on a board of size k: a function of k alone
FoundFor(k) == k >= 1 /\ k \notin {2, 3}

\* C2: for n = 2 and n = 3 solve() returns None under every flag combination,
\* and whether a run finds a solution depends on n only, never on the flags.
C2_NoSolutionAndInvariance ==
    pc = "done" =>
        /\ n \in {2, 3} => returned = None /\ report = "none" /\ solution = None
        /\ Truthy(returned) <=> FoundFor(n)

C2_Witness ==
    /\ pc = "done" /\ n = 3 /\ use_vrm /\ use_grau /\ use_vmr
    /\ nodes_explored > 1 /\ returned = None

\* C3: a solver with n <= 0 is rejected at construction: it never enters
\* solve() or _backtrack and never produces a search result.
C3_RejectedAtConstruction ==
    n <= 0 =>
        /\ pc \notin {"call", "loop", "return", "done"}
        /\ nodes_explored = 0

\* The validator accepts whatever the search returns, so the branch of
\* solve() that reports a conflict (line 174) is never taken.
ValidatorNeverRejects == report # "conflict"

\* C6: every column trial records one placement event, also when forward
\* checking fails, in the order of the trials, and the edges of the search
\* graph are as many as the recorded events: no two trials record the same
\* child state.
C6_OneEventPerTrial ==
    /\ Cardinality(G.edges) = Len(events)
    /\ G.edges = {<<events[i].parent, events[i].child>> : i \in DOMAIN events}
    /\ \A i \in DOMAIN events :
        /\ Elems(events[i].child) = Elems(events[i].parent) \cup {<<events[i].linha, events[i].col>>}
        /\ node_labels[events[i].child] = <<events[i].linha, events[i].col>>
        /\ exploration_order[events[i].child] = events[i].node_index
        /\ \/ events[i].parent = <<>>
           \/ \E j \in 1..(i - 1) : events[j].child = events[i].parent
        /\ \A j \in 1..(i - 1) : events[j].node_index <= events[i].node_index
    /\ pc = "loop" /\ Top.i <= Len(Top.ordered_cols) =>
           \A i \in DOMAIN events :
               events[i].parent = StateOf(Top.assignment) => events[i].col # Top.ordered_cols[Top.i]

\* two trials that failed forward checking at the root, both recorded
C6_Witness ==
    /\ pc = "loop" /\ nodes_explored = 1
    /\ Len(events) = 2 /\ backtracks = 2 /\ Cardinality(G.edges) = 2

\* column trials begun and not yet settled, or settled as part of the solution
OnPath ==
    IF pc \in {"constructed", "raised"} THEN 0
    ELSE IF pc = "loop" THEN Len(stack) - 1
    ELSE IF pc = "call" THEN Len(stack)
    ELSE IF pc \in {"done", "compared"}
         THEN (IF returned.some THEN Cardinality(DOMAIN returned.val) ELSE 0)
    ELSE IF ret.some THEN Cardinality(DOMAIN ret.val) ELSE Len(stack)

\* C7: backtracks counts one for each column trial that failed forward
\* checking or whose recursion returned failure, one for each invocation
\* whose row had no candidate column, and nothing for a trial whose
\* recursion returned a solution; when solve() has ended it equals the
\* trials off the returned solution's path plus the zero-candidate
\* invocations.
C7_BacktrackCount ==
    /\ backtracks = (Len(events) - OnPath) + zero_cands
    /\ pc = "done" /\ returned.some => backtracks = Len(events) - n + zero_cands
    /\ pc = "done" /\ ~returned.some => backtracks = Len(events) + zero_cands

C7_Witness ==
    /\ pc = "done" /\ returned.some /\ backtracks > 0
    /\ Len(events) > n + 1

\* C10: for n >= 1, whenever _backtrack is invoked with an incomplete
\* assignment every unassigned row has an available column, so the
\* zero-candidate branch is never taken.
C10_NoZeroCandidate ==
    n >= 1 =>
        /\ zero_cands = 0
        /\ pc = "call" =>
               \A r \in args.val.unassigned_linhas :
                   get_available_colunas(args.val.assignment, r) # <<>>
        /\ \A k \in DOMAIN stack : stack[k].ordered_cols # <<>>

C10_Witness ==
    /\ n >= 4 /\ pc = "call"
    /\ Cardinality(DOMAIN args.val.assignment) >= 2
    /\ args.val.unassigned_linhas # {}
    /\ backtracks > 0

\* what every step of a run increases
Progress ==
    3 * (nodes_explored + backtracks + Len(events)) - Len(stack)
        + (IF pc = "constructed" THEN 0 ELSE IF pc \in {"call", "loop"} THEN 1
           ELSE IF pc = "return" THEN 2 ELSE 3)

\* the guard of some action of the comparison holds
CanStep ==
    \/ pc \in {"constructed", "call", "return"}
    \/ pc = "loop" /\ stack # <<>>
    \/ pc = "done" /\ cfg_i \in DOMAIN configs

\* C5: on the 8 x 8 board the run without heuristics ends with a valid
\* solution and with more backtracks than the run with all three
\* heuristics.  Termination: until the comparison has ended a step is
\* always possible, and every step moves on to a later configuration or
\* increases Progress, so no run goes on for ever.
C5_Rows ==
    /\ cfg_i = 1 /\ pc = "done" =>
           /\ returned.some
           /\ DOMAIN returned.val = 0..(CompareN - 1)
           /\ NonAttacking(returned.val)
    /\ Len(results) >= 1 => results[1].found
    /\ Len(results) = Len(configs) =>
           results[1].backtracks > results[Len(configs)].backtracks
    /\ pc = "compared" \/ CanStep

C5_HeuristicsBacktrackLess ==
    /\ [](C5_Rows)
    /\ [][cfg_i' > cfg_i \/ (cfg_i' = cfg_i /\ Progress' > Progress)]_vars

C5_Witness ==
    /\ pc = "compared" /\ Len(results) = Len(configs)
    /\ results[1].found /\ results[Len(configs)].found

\* rows of `order` ranked by their number of available columns
AvailCount(a, r) == Len(get_available_colunas(a, r))
Fewest(a, order) == {r \in Elems(order) : \A q \in Elems(order) : AvailCount(a, r) <= AvailCount(a, q)}

\* C8: on every partial assignment and every non-empty set of unassigned
\* rows combined_heuristic returns: the smallest row when VRM is off; with
\* VRM only, the first row in iteration order among those with the fewest
\* available columns; with VRM and Grau, the smallest of those rows.
C8_RowPolicy ==
    h_pc = "chosen" =>
        /\ h_row.some
        /\ h_row.val \in Elems(h_order)
        /\ ~use_vrm => h_row.val = Min(Elems(h_order))
        /\ use_vrm /\ ~use_grau =>
               \E i \in DOMAIN h_order :
                   /\ h_order[i] = h_row.val
                   /\ h_row.val \in Fewest(h_assignment, h_order)
                   /\ \A j \in 1..(i - 1) : h_order[j] \notin Fewest(h_assignment, h_order)
        /\ use_vrm /\ use_grau => h_row.val = Min(Fewest(h_assignment, h_order))

\* a tie for the fewest columns in which the first row met is not the smallest
C8_Witness ==
    /\ h_pc = "chosen" /\ use_vrm /\ ~use_grau
    /\ Cardinality(Fewest(h_assignment, h_order)) >= 2
    /\ h_row.val # Min(Fewest(h_assignment, h_order))
    /\ h_assignment # <<>>

\* C9: a pop on a non-empty heap returns an item that is smallest among the
\* items pushed and not yet popped and removes one occurrence of it, every
\* other item staying in the heap.
C9_PopReturnsMinimum ==
    /\ BagOf(heap) = live
    /\ heap_op = "pop" /\ heap_ret.some =>
           \A x \in DOMAIN live : ~TupleLess(x, heap_ret.val)
    /\ heap # <<>> => \A i \in DOMAIN heap : ~TupleLess(heap[i], heap[1])

C9_Witness ==
    /\ heap_op = "pop" /\ heap_ret.some
    /\ Len(heap) = MaxHeap - 1
    /\ heap_ret.val \in DOMAIN live
    /\ \E i \in DOMAIN heap : TupleLess(heap[3], heap[2]) /\ TupleLess(heap[2], heap[i])

====
